---- MODULE Spec2Model ----
(***************************************************************************)
(* Model of DietGenerationLogic (src/logic.py): the retrieval-augmented    *)
(* generation pipeline behind get_diet_plan.                               *)
(*                                                                         *)
(* Python strings whose characters the code inspects (dosha keys, backend  *)
(* response text, dictionary keys and values of results) are sequences of  *)
(* one-character strings.  Strings the code only passes along (allergen    *)
(* names, categories) are TLA+ strings.                                    *)
(***************************************************************************)
EXTENDS Naturals, Sequences, FiniteSets, TLC

VARIABLES
    pc,               \* position in get_diet_plan
    user_payload,     \* the request, as produced by request.model_dump()
    store,            \* Knowledge Store contents, ranked for this query
    top_k,            \* the retriever's top_k argument
    metadata_filter,  \* the retriever's local metadata_filter
    search_query,     \* the retriever's local search_query (its parts)
    query_embedding,  \* the retriever's local query_embedding
    retrieved,        \* TRUE once the retriever has returned a list
    suitable_foods,   \* the list the retriever returned
    prompt,           \* <<>> or <<the parts interpolated into the prompt>>
    response,         \* what the Generative Backend answered
    guidelines,       \* the value _generate_guidelines_with_gemini returned
    result,           \* the value get_diet_plan returned
    outcome,          \* how each backend call ended: "none", "ok" or "fail"
    trace             \* the stages entered so far, in order

vars == <<pc, user_payload, store, top_k, metadata_filter, search_query,
          query_embedding, retrieved, suitable_foods, prompt, response,
          guidelines, result, outcome, trace>>

----------------------------------------------------------------------------
(* Bounds of the model *)

MaxScore == 3
MaxExtra == 3

(* Program constants *)

DefaultTopK == 15

----------------------------------------------------------------------------
(* Characters and string literals *)

NL == "\n"
QUOTE == "\""
\* the backquote character (a literal backquote cannot be written in a string)
BQ == "backquote"
Whitespace == {" ", NL}

S_vata ==
    <<"v", "a", "t", "a">>
S_pitta ==
    <<"p", "i", "t", "t", "a">>
S_kapha ==
    <<"k", "a", "p", "h", "a">>

K_error ==
    <<"e", "r", "r", "o", "r">>
K_message ==
    <<"m", "e", "s", "s", "a", "g", "e">>

MsgNoFoods ==
    <<"C", "o", "u", "l", "d", " ", "n", "o", "t", " ", "f", "i", "n", "d", " ", "s",
      "u", "i", "t", "a", "b", "l", "e", " ", "f", "o", "o", "d", "s", ".">>

MsgNoFoodsDetail ==
    <<"B", "a", "s", "e", "d", " ", "o", "n", " ", "y", "o", "u", "r", " ", "s", "p",
      "e", "c", "i", "f", "i", "c", " ", "p", "r", "o", "f", "i", "l", "e", " ", "a",
      "n", "d", " ", "a", "l", "l", "e", "r", "g", "i", "e", "s", ",", " ", "w", "e",
      " ", "c", "o", "u", "l", "d", "n", "'", "t", " ", "f", "i", "n", "d", " ", "a",
      "n", "y", " ", "r", "e", "c", "o", "m", "m", "e", "n", "d", "e", "d", " ", "f",
      "o", "o", "d", "s", " ", "i", "n", " ", "o", "u", "r", " ", "d", "a", "t", "a",
      "b", "a", "s", "e", ".">>

MsgGenFailed ==
    <<"F", "a", "i", "l", "e", "d", " ", "t", "o", " ", "g", "e", "n", "e", "r", "a",
      "t", "e", " ", "g", "u", "i", "d", "e", "l", "i", "n", "e", "s", " ", "f", "r",
      "o", "m", " ", "t", "h", "e", " ", "A", "I", " ", "m", "o", "d", "e", "l", ".">>

FenceJson ==
    <<BQ, BQ, BQ, "j", "s", "o", "n">>
Fence ==
    <<BQ, BQ, BQ>>

----------------------------------------------------------------------------
\* Python values: dict, list, str.  A dict keeps its keys in insertion order;
\* the tag fail stands for json.loads raising, the tag none for no value yet.

PyDict(ks, vs) == [t |-> "dict", keys |-> ks, vals |-> vs]
PyList(vs) == [t |-> "list", keys |-> <<>>, vals |-> vs]
PyStr(s) == [t |-> "str", keys |-> <<>>, vals |-> <<s>>]
ParseFail == [t |-> "fail", keys |-> <<>>, vals |-> <<>>]
NoValue == [t |-> "none", keys |-> <<>>, vals |-> <<>>]

Range(f) == {f[i] : i \in DOMAIN f}

HasKey(v, k) == v.t = "dict" /\ k \in Range(v.keys)

\* d[k] = x on a dict: an existing key keeps its position
DictPut(ks, vs, k, x) ==
    IF k \in Range(ks)
    THEN [keys |-> ks,
          vals |-> [i \in DOMAIN vs |-> IF ks[i] = k THEN x ELSE vs[i]]]
    ELSE [keys |-> Append(ks, k), vals |-> Append(vs, x)]

----------------------------------------------------------------------------
\* str.strip(): drop leading and trailing whitespace

RECURSIVE LStrip(_)
LStrip(s) ==
    IF s # <<>> /\ Head(s) \in Whitespace THEN LStrip(Tail(s)) ELSE s

RECURSIVE RStrip(_)
RStrip(s) ==
    IF s # <<>> /\ s[Len(s)] \in Whitespace
    THEN RStrip(SubSeq(s, 1, Len(s) - 1))
    ELSE s

Strip(s) == RStrip(LStrip(s))

StartsWith(s, pat) ==
    Len(s) >= Len(pat) /\ SubSeq(s, 1, Len(pat)) = pat

\* str.replace(pat, ""): every non-overlapping occurrence, left to right
RECURSIVE RemoveAll(_, _)
RemoveAll(s, pat) ==
    IF s = <<>> THEN <<>>
    ELSE IF StartsWith(s, pat)
         THEN RemoveAll(SubSeq(s, Len(pat) + 1, Len(s)), pat)
         ELSE <<Head(s)>> \o RemoveAll(Tail(s), pat)

\* response.text.strip().replace("```json", "").replace("```", "").strip()
NormalizeResponse(text) ==
    Strip(RemoveAll(RemoveAll(Strip(text), FenceJson), Fence))

----------------------------------------------------------------------------
\* json.loads on the documents the model's backend can produce: a string,
\* a list of strings or an object of string members, with JSON whitespace
\* between tokens.  Anything else in the model's texts is not JSON.

RECURSIVE SkipWs(_, _)
SkipWs(s, i) ==
    IF i <= Len(s) /\ s[i] \in Whitespace THEN SkipWs(s, i + 1) ELSE i

\* index of the quote closing the string whose content starts at j, 0 if none
RECURSIVE StringEnd(_, _)
StringEnd(s, j) ==
    IF j > Len(s) THEN 0
    ELSE IF s[j] = QUOTE THEN j
    ELSE IF s[j] = NL THEN 0
    ELSE StringEnd(s, j + 1)

\* the document ended at index j: only whitespace may follow
Finish(s, j, v) ==
    IF SkipWs(s, j + 1) > Len(s) THEN v ELSE ParseFail

RECURSIVE ParseArray(_, _, _)
ParseArray(s, i, acc) ==
    IF i > Len(s) \/ s[i] # QUOTE THEN ParseFail
    ELSE LET e == StringEnd(s, i + 1)
             j == SkipWs(s, e + 1)
         IN  IF e = 0 \/ j > Len(s) THEN ParseFail
             ELSE LET acc2 == Append(acc, SubSeq(s, i + 1, e - 1))
                  IN  IF s[j] = "]" THEN Finish(s, j, PyList(acc2))
                      ELSE IF s[j] = "," THEN ParseArray(s, SkipWs(s, j + 1), acc2)
                      ELSE ParseFail

RECURSIVE ParseObject(_, _, _, _)
ParseObject(s, i, ks, vs) ==
    IF i > Len(s) \/ s[i] # QUOTE THEN ParseFail
    ELSE LET ke == StringEnd(s, i + 1)
             c == SkipWs(s, ke + 1)
             v == SkipWs(s, c + 1)
         IN  IF ke = 0 \/ c > Len(s) \/ s[c] # ":" THEN ParseFail
             ELSE IF v > Len(s) \/ s[v] # QUOTE THEN ParseFail
             ELSE LET ve == StringEnd(s, v + 1)
                      j == SkipWs(s, ve + 1)
                  IN  IF ve = 0 \/ j > Len(s) THEN ParseFail
                      ELSE LET d == DictPut(ks, vs, SubSeq(s, i + 1, ke - 1),
                                            SubSeq(s, v + 1, ve - 1))
                           IN  IF s[j] = "}"
                               THEN Finish(s, j, PyDict(d.keys, d.vals))
                               ELSE IF s[j] = ","
                               THEN ParseObject(s, SkipWs(s, j + 1), d.keys, d.vals)
                               ELSE ParseFail

JsonLoads(s) ==
    LET i == SkipWs(s, 1)
    IN  IF i > Len(s) THEN ParseFail
        ELSE IF s[i] = QUOTE
        THEN LET e == StringEnd(s, i + 1)
             IN  IF e = 0 THEN ParseFail
                 ELSE Finish(s, e, PyStr(SubSeq(s, i + 1, e - 1)))
        ELSE IF s[i] = "["
        THEN LET j == SkipWs(s, i + 1)
             IN  IF j <= Len(s) /\ s[j] = "]" THEN Finish(s, j, PyList(<<>>))
                 ELSE ParseArray(s, j, <<>>)
        ELSE IF s[i] = "{"
        THEN LET j == SkipWs(s, i + 1)
             IN  IF j <= Len(s) /\ s[j] = "}" THEN Finish(s, j, PyDict(<<>>, <<>>))
                 ELSE ParseObject(s, j, <<>>, <<>>)
        ELSE ParseFail

----------------------------------------------------------------------------
\* str.capitalize(): first character upper-cased, the rest lower-cased

LowerLetters ==
    <<"a", "b", "c", "d", "e", "f", "g", "h", "i", "j", "k", "l", "m",
      "n", "o", "p", "q", "r", "s", "t", "u", "v", "w", "x", "y", "z">>
UpperLetters ==
    <<"A", "B", "C", "D", "E", "F", "G", "H", "I", "J", "K", "L", "M",
      "N", "O", "P", "Q", "R", "S", "T", "U", "V", "W", "X", "Y", "Z">>

Upper(c) ==
    IF \E i \in DOMAIN LowerLetters : LowerLetters[i] = c
    THEN UpperLetters[CHOOSE i \in DOMAIN LowerLetters : LowerLetters[i] = c]
    ELSE c

Lower(c) ==
    IF \E i \in DOMAIN UpperLetters : UpperLetters[i] = c
    THEN LowerLetters[CHOOSE i \in DOMAIN UpperLetters : UpperLetters[i] = c]
    ELSE c

Capitalize(s) ==
    [i \in DOMAIN s |-> IF i = 1 THEN Upper(s[i]) ELSE Lower(s[i])]

----------------------------------------------------------------------------
\* A vikriti dict is the sequence of its items <<key, score>> in iteration
\* order; model_dump() of DoshaScores yields vata, pitta, kapha.

VikritiDict(v, p, k) == <<<<S_vata, v>>, <<S_pitta, p>>, <<S_kapha, k>>>>

ScoreOf(d, k) == d[CHOOSE i \in DOMAIN d : d[i][1] = k][2]

\* max(d, key=d.get): the first key, in iteration order, whose score no
\* later comparison beats (max keeps the earlier of two equal candidates)
RECURSIVE MaxFrom(_, _, _)
MaxFrom(d, i, best) ==
    IF i > Len(d) THEN d[best][1]
    ELSE MaxFrom(d, i + 1, IF d[i][2] > d[best][2] THEN i ELSE best)

\* a max that keeps the later of two equal candidates
RECURSIVE MaxFromLast(_, _, _)
MaxFromLast(d, i, best) ==
    IF i > Len(d) THEN d[best][1]
    ELSE MaxFromLast(d, i + 1, IF d[i][2] >= d[best][2] THEN i ELSE best)

PyMaxKey_LastMax(d) == MaxFromLast(d, 2, 1)

PyMaxKey(d) == MaxFrom(d, 2, 1)

\* sorted(d.items(), key=lambda item: item[1], reverse=True): a stable sort,
\* so items of equal score keep their iteration order
SortedItemsDesc(d) ==
    LET pos(i) == Cardinality({j \in DOMAIN d :
                        d[j][2] > d[i][2] \/ (d[j][2] = d[i][2] /\ j < i)}) + 1
    IN  [n \in DOMAIN d |-> d[CHOOSE i \in DOMAIN d : pos(i) = n]]

\* [d.capitalize() for d, s in items if d != primary_dosha]
RECURSIVE SelectItems(_, _)
SelectItems(items, primary_dosha) ==
    IF items = <<>> THEN <<>>
    ELSE LET d == Head(items)[1]
             rest == SelectItems(Tail(items), primary_dosha)
         IN  IF d # primary_dosha THEN <<Capitalize(d)>> \o rest ELSE rest

PrimaryDosha(vikriti_scores) == Capitalize(PyMaxKey(vikriti_scores))

SecondaryDoshas(vikriti_scores) ==
    SelectItems(SortedItemsDesc(vikriti_scores), PrimaryDosha(vikriti_scores))

----------------------------------------------------------------------------
\* The retriever's metadata filter: a dict of field -> {operator: values},
\* modelled as the sequence of its clauses ({} is the empty sequence)

\* a retriever that forgets the allergy filter
BuildMetadataFilter_NoFilter(allergies) == <<>>

BuildMetadataFilter(allergies) ==
    IF allergies # <<>>
    THEN <<[field |-> "Allergen Info", op |-> "$nin", values |-> allergies]>>
    ELSE <<>>

\* Knowledge Store: does an item's metadata satisfy every clause of a filter
Satisfies(metadata, filter) ==
    \A c \in DOMAIN filter :
        IF filter[c].op = "$nin"
        THEN metadata[filter[c].field] \notin Range(filter[c].values)
        ELSE metadata[filter[c].field] \in Range(filter[c].values)

RECURSIVE FilterMatches(_, _)
FilterMatches(items, filter) ==
    IF items = <<>> THEN <<>>
    ELSE IF Satisfies(Head(items).metadata, filter)
         THEN <<Head(items)>> \o FilterMatches(Tail(items), filter)
         ELSE FilterMatches(Tail(items), filter)

\* index.query(vector, top_k, filter, include_metadata=True)['matches']:
\* the top_k most similar items that satisfy the filter, most similar first
IndexQuery(items, k, filter) ==
    LET m == FilterMatches(items, filter)
    IN  SubSeq(m, 1, IF Len(m) < k THEN Len(m) ELSE k)

\* [match['metadata'] for match in query_response['matches']]
MatchesMetadata(matches) == [i \in DOMAIN matches |-> matches[i].metadata]

\* [{'name': f.get('Dish Name'), 'category': f.get('Category')} for f in ...]
FoodInspirationList(foods) ==
    [i \in DOMAIN foods |->
        [name |-> foods[i]["Dish Name"], category |-> foods[i]["Category"]]]

----------------------------------------------------------------------------
\* The error objects the code builds

NoSuitableFoodsError ==
    PyDict(<<K_error, K_message>>, <<MsgNoFoods, MsgNoFoodsDetail>>)

GenerationFailedError == PyDict(<<K_error>>, <<MsgGenFailed>>)

\* a generation client that reports a parse failure with an extra message
GenerateGuidelines_ParseMessage(ok, text) ==
    IF ~ok THEN GenerationFailedError
    ELSE LET v == JsonLoads(NormalizeResponse(text))
         IN  IF v.t = "fail"
             THEN PyDict(<<K_error, K_message>>, <<MsgGenFailed, MsgGenFailed>>)
             ELSE v

\* _generate_guidelines_with_gemini: ok is FALSE when generate_content (or
\* reading response.text) raises; otherwise text is the backend's answer
GenerateGuidelines(ok, text) ==
    IF ~ok THEN GenerationFailedError
    ELSE LET v == JsonLoads(NormalizeResponse(text))
         IN  IF v.t = "fail" THEN GenerationFailedError ELSE v

----------------------------------------------------------------------------
\* Inputs

Scores == 1..MaxScore

AllergyLists == {<<>>, <<"Dairy">>, <<"Dairy", "Gluten">>}

CuisineLists == {<<>>, <<"North Indian", "South Indian">>}

UserPayload(v, p, k, allergies, cuisine) ==
    [profile |-> [vikriti |-> VikritiDict(v, p, k)],
     health |-> [agni |-> "weak", ama |-> "moderate"],
     dietPreferences |->
         [dietType |-> "vegetarian", allergies |-> allergies, cuisine |-> cuisine],
     environment |-> [season |-> "winter"],
     goals |-> [primaryGoal |-> "Improve digestion"]]

UserPayloads ==
    {UserPayload(v, p, k, a, c) :
        v \in Scores, p \in Scores, k \in Scores,
        a \in AllergyLists, c \in CuisineLists}

\* Knowledge Store contents as ranked for one query: item i is the i-th most
\* similar; its allergen follows a repeating pattern
AllergenPatterns ==
    {<<"None">>, <<"Dairy">>, <<"Dairy", "None">>, <<"None", "Gluten">>,
     <<"Gluten", "Dairy", "None">>,
     <<"None", "None", "None", "None", "None", "None", "Dairy">>}

StoreSizes == {0, 1, DefaultTopK, DefaultTopK + MaxExtra}

Categories == <<"Grains", "Vegetables">>

StoreItem(n, pattern, i) ==
    [score |-> n - i + 1,
     metadata |-> ("Dish Name" :> i)
                  @@ ("Category" :> Categories[(i % 2) + 1])
                  @@ ("Allergen Info" :> pattern[((i - 1) % Len(pattern)) + 1])]

Stores ==
    {[i \in 1..n |-> StoreItem(n, pattern, i)] :
        n \in StoreSizes, pattern \in AllergenPatterns}

\* Texts the Generative Backend may answer with: a document, bare or wrapped
\* in code-fence markers
DocPlan ==
    <<"{", QUOTE, "a", QUOTE, ":", " ", QUOTE, "b", QUOTE, "}">>
DocList ==
    <<"[", QUOTE, "a", QUOTE, "]">>
DocError ==
    <<"{", QUOTE, "e", "r", "r", "o", "r", QUOTE, ":", " ", QUOTE, "x", QUOTE, "}">>
DocErrorPlus ==
    <<"{", QUOTE, "e", "r", "r", "o", "r", QUOTE, ":", " ", QUOTE, "x", QUOTE, ",", " ",
      QUOTE, "a", QUOTE, ":", " ", QUOTE, "b", QUOTE, "}">>
DocNotJson ==
    <<"o", "o", "p", "s">>
DocEmpty ==
    <<>>
DocInnerFence ==
    <<"{", QUOTE, "a", QUOTE, ":", " ", QUOTE, BQ, BQ, BQ, QUOTE, "}">>

Documents ==
    {DocPlan, DocList, DocError, DocErrorPlus, DocNotJson, DocEmpty,
     DocInnerFence}

Wrappers ==
    {[open |-> <<>>, close |-> <<>>],
     [open |-> FenceJson \o <<NL>>, close |-> <<NL>> \o Fence],
     [open |-> Fence \o <<NL>>, close |-> <<NL>> \o Fence \o <<NL>>]}

Responses ==
    {[open |-> w.open, body |-> d, close |-> w.close] :
        w \in Wrappers, d \in Documents}

NoResponse == [open |-> <<>>, body |-> <<>>, close |-> <<>>]

ResponseText(r) == r.open \o r.body \o r.close

----------------------------------------------------------------------------
\* The state machine of one get_diet_plan call

Init ==
    /\ pc = "idle"
    /\ user_payload \in UserPayloads
    /\ store \in Stores
    /\ top_k = DefaultTopK
    /\ metadata_filter = <<>>
    /\ search_query = <<>>
    /\ query_embedding = <<>>
    /\ retrieved = FALSE
    /\ suitable_foods = <<>>
    /\ prompt = <<>>
    /\ response = NoResponse
    /\ guidelines = NoValue
    /\ result = NoValue
    /\ outcome = [encode |-> "none", query |-> "none", generate |-> "none"]
    /\ trace = <<>>

\* get_diet_plan enters the retriever, which builds the filter and the
\* search query (logic.py 48-65)
ComposeQuery ==
    /\ pc = "idle"
    /\ metadata_filter' = BuildMetadataFilter(user_payload.dietPreferences.allergies)
    /\ search_query' =
         <<[primary_vikriti |-> PyMaxKey(user_payload.profile.vikriti),
            primaryGoal |-> user_payload.goals.primaryGoal,
            agni |-> user_payload.health.agni,
            season |-> user_payload.environment.season,
            cuisine |-> user_payload.dietPreferences.cuisine]>>
    /\ pc' = "encode"
    /\ UNCHANGED <<user_payload, store, top_k, query_embedding, retrieved,
                   suitable_foods, prompt, response, guidelines, result,
                   outcome, trace>>

\* embedding_model.encode(search_query) returns (logic.py 67)
EncodeOk ==
    /\ pc = "encode"
    /\ query_embedding' = <<[encoded |-> search_query[1]]>>
    /\ outcome' = [outcome EXCEPT !.encode = "ok"]
    /\ trace' = Append(trace, "encode")
    /\ pc' = "query"
    /\ UNCHANGED <<user_payload, store, top_k, metadata_filter, search_query,
                   retrieved, suitable_foods, prompt, response, guidelines,
                   result>>

\* embedding_model.encode raises: line 67 is outside the try block, and
\* get_diet_plan has no handler, so the exception leaves get_diet_plan
EncodeRaises ==
    /\ pc = "encode"
    /\ outcome' = [outcome EXCEPT !.encode = "fail"]
    /\ trace' = Append(trace, "encode")
    /\ pc' = "raised"
    /\ UNCHANGED <<user_payload, store, top_k, metadata_filter, search_query,
                   query_embedding, retrieved, suitable_foods, prompt,
                   response, guidelines, result>>

\* index.query returns its matches; the retriever returns their metadata
\* (logic.py 72-80)
QueryOk ==
    /\ pc = "query"
    /\ suitable_foods' = MatchesMetadata(IndexQuery(store, top_k, metadata_filter))
    /\ retrieved' = TRUE
    /\ outcome' = [outcome EXCEPT !.query = "ok"]
    /\ trace' = Append(trace, "query")
    /\ pc' = "check"
    /\ UNCHANGED <<user_payload, store, top_k, metadata_filter, search_query,
                   query_embedding, prompt, response, guidelines, result>>

\* index.query raises; the retriever catches it and returns [] (logic.py 81-83)
QueryRaises ==
    /\ pc = "query"
    /\ suitable_foods' = <<>>
    /\ retrieved' = TRUE
    /\ outcome' = [outcome EXCEPT !.query = "fail"]
    /\ trace' = Append(trace, "query")
    /\ pc' = "check"
    /\ UNCHANGED <<user_payload, store, top_k, metadata_filter, search_query,
                   query_embedding, prompt, response, guidelines, result>>

\* if not suitable_foods: return the error object (logic.py 103-107)
RetrievalEmpty ==
    /\ pc = "check"
    /\ suitable_foods = <<>>
    /\ result' = NoSuitableFoodsError
    /\ pc' = "returned"
    /\ UNCHANGED <<user_payload, store, top_k, metadata_filter, search_query,
                   query_embedding, retrieved, suitable_foods, prompt,
                   response, guidelines, outcome, trace>>

\* an orchestrator without the emptiness check before prompt assembly
AssemblePrompt_NoEmptyCheck ==
    /\ pc = "check"
    /\ prompt' =
         <<[primary_dosha |-> PrimaryDosha(user_payload.profile.vikriti),
            secondary_doshas |-> SecondaryDoshas(user_payload.profile.vikriti),
            allergies |-> user_payload.dietPreferences.allergies,
            dietType |-> user_payload.dietPreferences.dietType,
            cuisine |-> user_payload.dietPreferences.cuisine,
            food_inspiration_list |-> FoodInspirationList(suitable_foods)]>>
    /\ trace' = Append(trace, "prompt")
    /\ pc' = "generate"
    /\ UNCHANGED <<user_payload, store, top_k, metadata_filter, search_query,
                   query_embedding, retrieved, suitable_foods, response,
                   guidelines, result, outcome>>

\* the prompt is assembled from the profile and the foods (logic.py 109-158)
AssemblePrompt ==
    /\ pc = "check"
    /\ suitable_foods # <<>>
    /\ prompt' =
         <<[primary_dosha |-> PrimaryDosha(user_payload.profile.vikriti),
            secondary_doshas |-> SecondaryDoshas(user_payload.profile.vikriti),
            allergies |-> user_payload.dietPreferences.allergies,
            dietType |-> user_payload.dietPreferences.dietType,
            cuisine |-> user_payload.dietPreferences.cuisine,
            food_inspiration_list |-> FoodInspirationList(suitable_foods)]>>
    /\ trace' = Append(trace, "prompt")
    /\ pc' = "generate"
    /\ UNCHANGED <<user_payload, store, top_k, metadata_filter, search_query,
                   query_embedding, retrieved, suitable_foods, response,
                   guidelines, result, outcome>>

\* generate_content answers with a text, which is normalized and parsed
\* (logic.py 89-95)
GenerateAnswers ==
    /\ pc = "generate"
    /\ \E r \in Responses :
         /\ response' = r
         /\ guidelines' = GenerateGuidelines(TRUE, ResponseText(r))
    /\ outcome' = [outcome EXCEPT !.generate = "ok"]
    /\ trace' = Append(trace, "generate")
    /\ pc' = "return"
    /\ UNCHANGED <<user_payload, store, top_k, metadata_filter, search_query,
                   query_embedding, retrieved, suitable_foods, prompt, result>>

\* a generation client that calls the backend again after a failure
GenerateRaises_Retry ==
    /\ pc = "generate"
    /\ Len(trace) < 6
    /\ guidelines' = GenerateGuidelines(FALSE, <<>>)
    /\ outcome' = [outcome EXCEPT !.generate = "fail"]
    /\ trace' = Append(trace, "generate")
    /\ pc' \in {"generate", "return"}
    /\ UNCHANGED <<user_payload, store, top_k, metadata_filter, search_query,
                   query_embedding, retrieved, suitable_foods, prompt,
                   response, result>>

\* generate_content raises (logic.py 93-95)
GenerateRaises ==
    /\ pc = "generate"
    /\ guidelines' = GenerateGuidelines(FALSE, <<>>)
    /\ outcome' = [outcome EXCEPT !.generate = "fail"]
    /\ trace' = Append(trace, "generate")
    /\ pc' = "return"
    /\ UNCHANGED <<user_payload, store, top_k, metadata_filter, search_query,
                   query_embedding, retrieved, suitable_foods, prompt,
                   response, result>>

\* return guidelines (logic.py 160-161)
ReturnGuidelines ==
    /\ pc = "return"
    /\ result' = guidelines
    /\ pc' = "returned"
    /\ UNCHANGED <<user_payload, store, top_k, metadata_filter, search_query,
                   query_embedding, retrieved, suitable_foods, prompt,
                   response, guidelines, outcome, trace>>

Next ==
    \/ ComposeQuery
    \/ EncodeOk
    \/ EncodeRaises
    \/ QueryOk
    \/ QueryRaises
    \/ RetrievalEmpty
    \/ AssemblePrompt
    \/ GenerateAnswers
    \/ GenerateRaises
    \/ ReturnGuidelines

Spec == Init /\ [][Next]_vars

----------------------------------------------------------------------------
\* Properties

Vikriti == user_payload.profile.vikriti
Allergies == user_payload.dietPreferences.allergies

S_Vata ==
    <<"V", "a", "t", "a">>
S_Pitta ==
    <<"P", "i", "t", "t", "a">>
S_Kapha ==
    <<"K", "a", "p", "h", "a">>

\* the lower-case dosha key a capitalized dosha name stands for
KeyOf(name) ==
    IF name = S_Vata THEN S_vata
    ELSE IF name = S_Pitta THEN S_pitta
    ELSE IF name = S_Kapha THEN S_kapha
    ELSE <<>>

DoshaKeys == {S_vata, S_pitta, S_kapha}

\* C1: once the prompt is assembled, secondary_doshas holds exactly the two
\* doshas other than the primary one, in descending score order, and never
\* the primary dosha itself.
C1_SecondaryDoshasExcludePrimary ==
    prompt # <<>> =>
        LET sec == prompt[1].secondary_doshas
            pri == prompt[1].primary_dosha
        IN  /\ Len(sec) = 2
            /\ pri \notin Range(sec)
            /\ {KeyOf(sec[i]) : i \in DOMAIN sec} = DoshaKeys \ {KeyOf(pri)}
            /\ \A i, j \in DOMAIN sec :
                   i < j => ScoreOf(Vikriti, KeyOf(sec[i])) >= ScoreOf(Vikriti, KeyOf(sec[j]))

\* C2: a failure of the embedding call or of the store query ends inside the
\* retriever, which returns an empty list; it never leaves as an exception.
C2_RetrieverCatchesBackendFailures ==
    (outcome.encode = "fail" \/ outcome.query = "fail") =>
        (retrieved /\ suitable_foods = <<>> /\ pc # "raised")

\* C3: whatever the backends do, get_diet_plan never ends with an exception
\* crossing its boundary.
C3_NoExceptionCrossesBoundary ==
    pc # "raised"

\* C4: when the retriever returns an empty list, get_diet_plan returns
\* exactly the no-suitable-foods error object, the prompt is never assembled
\* and the Generative Backend is never invoked.
C4_EmptyRetrievalShortCircuits ==
    (retrieved /\ suitable_foods = <<>>) =>
        /\ prompt = <<>>
        /\ "prompt" \notin Range(trace)
        /\ "generate" \notin Range(trace)
        /\ outcome.generate = "none"
        /\ pc = "returned" =>
              result = PyDict(<<K_error, K_message>>, <<MsgNoFoods, MsgNoFoodsDetail>>)

C4_Witness ==
    pc = "returned" /\ retrieved /\ suitable_foods = <<>> /\ outcome.query = "ok"

\* C5: every value get_diet_plan returns is a mapping, and it is either a
\* plan without an error key or an error object whose keys are error and,
\* optionally, message.
C5_ResultShapes ==
    pc = "returned" =>
        /\ result.t = "dict"
        /\ HasKey(result, K_error) => Range(result.keys) \subseteq {K_error, K_message}

\* C6: when the embedding and the store query succeed, the retriever returns
\* the metadata of the first top_k store items, in ranking order, among
\* exactly those whose allergen is not one of the profile's allergies.
C6_RetrieverResult ==
    (retrieved /\ outcome.query = "ok") =>
        LET eligible == {i \in DOMAIN store :
                            store[i].metadata["Allergen Info"] \notin Range(Allergies)}
            n == IF Cardinality(eligible) < top_k THEN Cardinality(eligible) ELSE top_k
        IN  /\ Len(suitable_foods) = n
            /\ \A j \in 1..n :
                 \E i \in eligible :
                    /\ Cardinality({k \in eligible : k < i}) = j - 1
                    /\ suitable_foods[j] = store[i].metadata
            /\ \A i, j \in DOMAIN store : i < j => store[i].score > store[j].score

C6_Witness ==
    /\ retrieved
    /\ outcome.query = "ok"
    /\ Allergies # <<>>
    /\ Len(suitable_foods) = top_k
    /\ Len(store) > top_k
    /\ \E i \in 1..top_k : store[i].metadata["Allergen Info"] \in Range(Allergies)

\* C7: every failure of the backend call and every parse failure of its text
\* gives the same object with the single key error, and get_diet_plan returns
\* that object unchanged.
C7_GenerationFailureObject ==
    (\/ outcome.generate = "fail"
     \/ /\ outcome.generate = "ok"
        /\ JsonLoads(NormalizeResponse(ResponseText(response))).t = "fail") =>
        /\ guidelines = PyDict(<<K_error>>, <<MsgGenFailed>>)
        /\ pc = "returned" => result = PyDict(<<K_error>>, <<MsgGenFailed>>)

C7_Witness ==
    /\ pc = "returned"
    /\ outcome.generate = "ok"
    /\ response.body = DocNotJson
    /\ result = PyDict(<<K_error>>, <<MsgGenFailed>>)

\* C8: for a response that is a JSON document between an opening and a
\* closing code-fence marker, the generation client's result is the parse of
\* the document between the markers.
C8_FencedDocumentRoundTrip ==
    (/\ outcome.generate = "ok"
     /\ response.open # <<>>
     /\ response.close # <<>>
     /\ JsonLoads(response.body).t # "fail") =>
        guidelines = JsonLoads(response.body)

\* C9: the primary imbalance of the retrieval query and the primary dosha of
\* the prompt are the same key, the first key in the order vata, pitta,
\* kapha that carries the maximal vikriti score.
C9_PrimaryDoshaConsistent ==
    /\ search_query # <<>> =>
         LET k == search_query[1].primary_vikriti
             order == <<S_vata, S_pitta, S_kapha>>
         IN  /\ k \in DoshaKeys
             /\ \A d \in DoshaKeys : ScoreOf(Vikriti, d) <= ScoreOf(Vikriti, k)
             /\ \A i, j \in DOMAIN order :
                    (order[j] = k /\ i < j) =>
                        ScoreOf(Vikriti, order[i]) < ScoreOf(Vikriti, k)
    /\ prompt # <<>> =>
         KeyOf(prompt[1].primary_dosha) = search_query[1].primary_vikriti

C9_Witness ==
    /\ prompt # <<>>
    /\ ScoreOf(Vikriti, S_pitta) = ScoreOf(Vikriti, S_kapha)
    /\ ScoreOf(Vikriti, S_vata) < ScoreOf(Vikriti, S_pitta)
    /\ prompt[1].primary_dosha = S_Pitta

\* C10: the stages run in the order embedding, store query, prompt assembly,
\* generation, each at most once, and a call that has returned has run each
\* of its stages exactly once.
C10_StagesOnceInOrder ==
    LET order == <<"encode", "query", "prompt", "generate">>
    IN  /\ Len(trace) <= Len(order)
        /\ trace = SubSeq(order, 1, Len(trace))
        /\ (outcome.encode # "none") = ("encode" \in Range(trace))
        /\ (outcome.query # "none") = ("query" \in Range(trace))
        /\ (outcome.generate # "none") = ("generate" \in Range(trace))
        /\ pc = "returned" =>
              IF suitable_foods = <<>>
              THEN trace = SubSeq(order, 1, 2)
              ELSE trace = order

C10_Witness ==
    /\ pc = "returned"
    /\ outcome.generate = "fail"
    /\ trace = <<"encode", "query", "prompt", "generate">>

====
